---- MODULE Spec2Model ----
(***************************************************************************)
(* A model of src/api/main.py (hexis): the conversation registry and the   *)
(* /start_conversation and /analyze handlers, the chart-directive pipeline *)
(* inside analyze_question (regular-expression search, ast.literal_eval,   *)
(* the per-type dispatch to matplotlib, the removal of the directive from  *)
(* the answer) and parse_llm_output.                                       *)
(*                                                                         *)
(* Text is a sequence of one-character strings, so that the regular        *)
(* expressions and the parsers work on characters as the code does.        *)
(*                                                                         *)
(* An operator that needs an intermediate result more than once takes it   *)
(* as a parameter of a second operator (Foo computes it, FooAt uses it).   *)
(***************************************************************************)
EXTENDS Integers, Sequences, FiniteSets, TLC

VARIABLES
    conversations,    \* the registry: conversation_id -> reference into heap
    heap,             \* the Conversation objects: reference -> messages
    start_responses,  \* the conversation_id of every /start_conversation reply
    pc,               \* request -> position of its analyze_question handler
    question,         \* request -> [query, conversation_id]
    conversation,     \* request -> the handler's local `conversation`
    chat_history,     \* request -> the history block given to the model
    result,           \* request -> the handler's local `result`
    response,         \* request -> the reply (analysis, plot_url) or the 500
    created,          \* request -> whether its handler created the conversation
    before,           \* request -> the messages found when it recorded its user turn
    arg,              \* the input of the function under study
    ret,              \* its results so far
    step              \* how many times it has been applied

vars == <<conversations, heap, start_responses, pc, question, conversation,
          chat_history, result, response, created, before, arg, ret, step>>

server_vars == <<conversations, heap, start_responses, pc, question,
                 conversation, chat_history, result, response, created, before>>

pure_vars == <<arg, ret, step>>

-----------------------------------------------------------------------------
(* Bounds of the model.                                                    *)

\* the pieces a generated text is put together from
MaxFrags == 5

\* /analyze requests
MaxCalls == 2

\* /start_conversation requests
MaxStarts == 1

-----------------------------------------------------------------------------
(* Characters and text.                                                    *)

Min(S) == CHOOSE x \in S : \A y \in S : x <= y

Max(S) == CHOOSE x \in S : \A y \in S : x >= y

\* the least element of a set of positions, 0 for the empty set
FirstOf(S) == IF S = {} THEN 0 ELSE Min(S)

Range(f) == {f[i] : i \in DOMAIN f}

UpperCase == <<"A", "B", "C", "D", "E", "F", "G", "H", "I", "J", "K", "L", "M",
               "N", "O", "P", "Q", "R", "S", "T", "U", "V", "W", "X", "Y", "Z">>

LowerCase == <<"a", "b", "c", "d", "e", "f", "g", "h", "i", "j", "k", "l", "m",
               "n", "o", "p", "q", "r", "s", "t", "u", "v", "w", "x", "y", "z">>

Digits == <<"0", "1", "2", "3", "4", "5", "6", "7", "8", "9">>

\* what \w matches
WordChars == Range(UpperCase) \cup Range(LowerCase) \cup Range(Digits) \cup {"_"}

\* what \s matches and str.strip() removes, among the characters used here
Whitespace == {" ", "\n"}

\* str.lower() of one character
LowerChar(c) ==
    IF \E i \in DOMAIN UpperCase : UpperCase[i] = c
    THEN LowerCase[CHOOSE i \in DOMAIN UpperCase : UpperCase[i] = c]
    ELSE c

\* str.lower()
Lower(t) == [i \in 1..Len(t) |-> LowerChar(t[i])]

DigitValue(c) == (CHOOSE i \in DOMAIN Digits : Digits[i] = c) - 1

\* the value of the decimal digits t[i..j]
RECURSIVE Decimal(_, _, _)
Decimal(t, i, j) ==
    IF j < i THEN 0 ELSE 10 * Decimal(t, i, j - 1) + DigitValue(t[j])

\* pat occurs in t at position i
StartsAt(t, i, pat) ==
    /\ i >= 1
    /\ i + Len(pat) - 1 <= Len(t)
    /\ \A k \in 1..Len(pat) : t[i + k - 1] = pat[k]

\* the least position >= i where pat occurs in t, 0 when there is none
FindFrom(t, i, pat) ==
    FirstOf({j \in i..(Len(t) - Len(pat) + 1) : StartsAt(t, j, pat)})

\* the first position >= i of t that holds no character of the set cs
\* (Len(t) + 1 when there is none)
SkipWhile(t, i, cs) ==
    Min({j \in i..(Len(t) + 1) : IF j = Len(t) + 1 THEN TRUE ELSE t[j] \notin cs})

\* str.strip()
Trimmed(t, kept) == IF kept = {} THEN <<>> ELSE SubSeq(t, Min(kept), Max(kept))

StrStrip(t) == Trimmed(t, {k \in 1..Len(t) : t[k] \notin Whitespace})

-----------------------------------------------------------------------------
(* The regular expressions of lines 213, 218, 219 and 271.                 *)

PLOT == <<"P", "L", "O", "T", ":">>

END_PLOT == <<"E", "N", "D", "_", "P", "L", "O", "T">>

TYPE == <<"t", "y", "p", "e", ":">>

NoMatch == [found |-> FALSE, start |-> 0, inner |-> 0, stop |-> 0, next |-> 0]

\* a match of PLOT:(.*?)END_PLOT: PLOT: at start, group 1 from inner up to
\* stop (where END_PLOT is), the text after the match from next
PlotSpan(start, stop) ==
    IF start = 0 THEN NoMatch
    ELSE [found |-> TRUE, start |-> start, inner |-> start + Len(PLOT),
          stop |-> stop, next |-> stop + Len(END_PLOT)]

PlotSpanAt(t, start) == PlotSpan(start, FindFrom(t, start + Len(PLOT), END_PLOT))

\* a faulty search, which takes a PLOT: that no END_PLOT follows for a match
\* up to the end of the text
LonePlotSearch(t, i) == PlotSpan(FindFrom(t, i, PLOT), Len(t) + 1)

\* re.search(r'PLOT:(.*?)END_PLOT', t, re.DOTALL) from position i: the
\* leftmost PLOT: that some END_PLOT follows (. matches every character),
\* up to the first such END_PLOT (.*? is lazy)
PlotSearch(t, i) ==
    PlotSpanAt(t, FirstOf({s \in i..Len(t) :
                              /\ StartsAt(t, s, PLOT)
                              /\ FindFrom(t, s + Len(PLOT), END_PLOT) # 0}))

\* re.sub(r'PLOT:.*?END_PLOT', '', t, flags=re.DOTALL) from position i: one
\* left-to-right pass that drops every non-overlapping match and never
\* looks again at what it has produced
RECURSIVE PlotSub(_, _), PlotSubAt(_, _, _)
PlotSub(t, i) == PlotSubAt(t, i, PlotSearch(t, i))

PlotSubAt(t, i, m) ==
    IF ~m.found THEN SubSeq(t, i, Len(t))
    ELSE SubSeq(t, i, m.start - 1) \o PlotSub(t, m.next)

\* line 271: re.sub(r'PLOT:.*?END_PLOT', '', result, flags=re.DOTALL).strip()
RemovePlotSection(t) == StrStrip(PlotSub(t, 1))

\* line 217: plot_match.group(1).strip()
GroupOne(t, m) == StrStrip(SubSeq(t, m.inner, m.stop - 1))

\* the word (\w+) of info that starts at position j
TypeWord(info, j) == SubSeq(info, j, SkipWhile(info, j, WordChars) - 1)

TypeAt(info, i) ==
    IF i = 0 THEN [found |-> FALSE, word |-> <<>>]
    ELSE [found |-> TRUE,
          word |-> TypeWord(info, SkipWhile(info, i + Len(TYPE), Whitespace))]

\* a \w character stands at position j of info
WordStarts(info, j) == IF j > Len(info) THEN FALSE ELSE info[j] \in WordChars

\* re.search(r'type:\s*(\w+)', info, re.IGNORECASE): the leftmost type:
\* (in any case) with a word after optional white space
TypeSearch(info) ==
    TypeAt(info, FirstOf({i \in 1..Len(info) :
               /\ StartsAt(Lower(info), i, TYPE)
               /\ WordStarts(info, SkipWhile(info, i + Len(TYPE), Whitespace))}))

Closer(c) == IF c = "{" THEN "}" ELSE "]"

\* the positions after i, before the end of the line of i, that hold the
\* closer of the bracket info[i]
ClosersOnLine(info, i) ==
    {j \in (i + 1)..(SkipWhile(info, i, Range(info) \ {"\n"}) - 1) :
        info[j] = Closer(info[i])}

DataAt(info, i) ==
    IF i = 0 THEN [found |-> FALSE, text |-> <<>>]
    ELSE [found |-> TRUE, text |-> SubSeq(info, i, Max(ClosersOnLine(info, i)))]

\* re.search(r'\{.*\}|\[.*\]', info): the leftmost { or [ with its closer
\* later on the same line (. matches no newline), up to the last such
\* closer (.* is greedy)
DataSearch(info) ==
    DataAt(info, FirstOf({i \in 1..Len(info) :
               /\ info[i] \in {"{", "["}
               /\ ClosersOnLine(info, i) # {}}))

-----------------------------------------------------------------------------
(* Python values, as far as the directive's payload and the model's JSON   *)
(* output need them. Every value is a record [k, n, items]: an int (n), a  *)
(* float or a str (items: its characters), a list (items), a dict (items:  *)
(* its <<key, value>> pairs in insertion order), a tuple, a set, True,     *)
(* False or None.                                                          *)

Num(n) == [k |-> "num", n |-> n, items |-> <<>>]

Float(digits) == [k |-> "float", n |-> 0, items |-> digits]

Str(chars) == [k |-> "str", n |-> 0, items |-> chars]

List(items) == [k |-> "list", n |-> 0, items |-> items]

Dict(pairs) == [k |-> "dict", n |-> 0, items |-> pairs]

Tuple(items) == [k |-> "tuple", n |-> 0, items |-> items]

SetOf(items) == [k |-> "set", n |-> 0, items |-> items]

Bool(b) == [k |-> "bool", n |-> IF b THEN 1 ELSE 0, items |-> <<>>]

None == [k |-> "none", n |-> 0, items |-> <<>>]

\* dict insertion: a key already present keeps its place and takes the new value
DictPut(pairs, key, val) ==
    IF \E i \in DOMAIN pairs : pairs[i][1] = key
    THEN [i \in DOMAIN pairs |->
             IF pairs[i][1] = key THEN <<pairs[i][1], val>> ELSE pairs[i]]
    ELSE Append(pairs, <<key, val>>)

\* set insertion
SetPut(items, elt) ==
    IF \E i \in DOMAIN items : items[i] = elt THEN items ELSE Append(items, elt)

-----------------------------------------------------------------------------
(* The two library parsers the code calls, ast.literal_eval (line 223) and *)
(* json.loads (line 341), as one pushdown machine over the characters with *)
(* a dialect d. Both read ints, list displays and brace displays with      *)
(* blanks between the tokens.                                              *)
(*   "python": dict keys and set members are ints (a list or a dict there  *)
(*   is unhashable: TypeError), a comma may end a display, {1, 2} is a     *)
(*   set, a top-level comma makes a tuple. A name raises. The inputs never *)
(*   spell True, False or None, hold no quote, dot or sign and put no      *)
(*   letter or underscore against a digit.                                 *)
(*   "json": strings (the inputs hold no backslash), true, false, null,    *)
(*   ints and decimal fractions without sign or exponent; object keys are  *)
(*   strings; no trailing comma, no set, no tuple.                         *)
(* Everything else raises (SyntaxError, ValueError, TypeError,             *)
(* JSONDecodeError): NoParse.                                              *)

\* a parser's answer: the value read, or a failure (the parser raises)
Parsed(v) == [ok |-> TRUE, v |-> v]

NoParse == [ok |-> FALSE, v |-> None]

\* a token: the value read and the position after it
Token(v, next) == [ok |-> TRUE, v |-> v, next |-> next]

NoToken == [ok |-> FALSE, v |-> None, next |-> 0]

Blank(d) == IF d = "json" THEN {" ", "\n"} ELSE {" "}

\* a display being read: kind, what may come next, its items so far and,
\* for a dict, the key that waits for its value
Frame(kind, expect, items, key, haskey) ==
    [kind |-> kind, expect |-> expect, items |-> items, key |-> key, haskey |-> haskey]

TopFrame == Frame("top", "value", <<>>, None, FALSE)

Hashable(v, d) == IF d = "json" THEN v.k = "str" ELSE v.k = "num"

WantsValue(f) == f.expect \in {"value", "value_or_close", "value_or_end"}

\* the stack after value v arrives in its top frame; << >> when v cannot
\* come there
Deliver(stack, v, d) ==
    LET f == stack[Len(stack)]
        put(g) == [stack EXCEPT ![Len(stack)] = g]
    IN  IF ~WantsValue(f) THEN << >>
        ELSE IF f.kind \in {"top", "tuple"}
        THEN put([f EXCEPT !.items = Append(@, v), !.expect = "comma_or_end"])
        ELSE IF f.kind = "list"
        THEN put([f EXCEPT !.items = Append(@, v), !.expect = "comma_or_close"])
        ELSE IF f.kind = "brace"
        THEN put([f EXCEPT !.key = v, !.expect = "after_first"])
        ELSE IF f.kind = "set"
        THEN IF Hashable(v, d)
             THEN put([f EXCEPT !.items = SetPut(@, v), !.expect = "comma_or_close"])
             ELSE << >>
        ELSE IF f.haskey
        THEN put([f EXCEPT !.items = DictPut(@, f.key, v), !.haskey = FALSE,
                           !.expect = "comma_or_close"])
        ELSE IF Hashable(v, d)
        THEN put([f EXCEPT !.key = v, !.haskey = TRUE, !.expect = "colon"])
        ELSE << >>

\* the value that the closing bracket c completes in frame f
ClosedValue(f, c, d) ==
    LET open == f.expect = "value_or_close"
        done == f.expect = "comma_or_close"
    IN  IF c = "]"
        THEN IF f.kind = "list" /\ (open \/ done) THEN Parsed(List(f.items)) ELSE NoParse
        ELSE IF f.kind = "brace" /\ open THEN Parsed(Dict(<<>>))
        ELSE IF f.kind = "brace" /\ f.expect = "after_first"
                /\ d = "python" /\ Hashable(f.key, d)
        THEN Parsed(SetOf(<<f.key>>))
        ELSE IF f.kind = "dict" /\ (done \/ (open /\ ~f.haskey)) THEN Parsed(Dict(f.items))
        ELSE IF f.kind = "set" /\ (open \/ done) THEN Parsed(SetOf(f.items))
        ELSE NoParse

CloseWith(rest, closed, d) ==
    IF closed.ok /\ rest # << >> THEN Deliver(rest, closed.v, d) ELSE << >>

\* the stack after the closing bracket c; << >> when c cannot come there
Close(stack, c, d) ==
    CloseWith(SubSeq(stack, 1, Len(stack) - 1), ClosedValue(stack[Len(stack)], c, d), d)

\* the stack after a comma
Comma(stack, d) ==
    LET f == stack[Len(stack)]
        put(g) == [stack EXCEPT ![Len(stack)] = g]
    IN  IF f.kind \in {"list", "dict", "set"} /\ f.expect = "comma_or_close"
        THEN put([f EXCEPT !.expect = IF d = "python" THEN "value_or_close" ELSE "value"])
        ELSE IF f.kind = "brace" /\ f.expect = "after_first"
                /\ d = "python" /\ Hashable(f.key, d)
        THEN put(Frame("set", "value_or_close", <<f.key>>, None, FALSE))
        ELSE IF f.kind \in {"top", "tuple"} /\ f.expect = "comma_or_end" /\ d = "python"
        THEN put([f EXCEPT !.kind = "tuple", !.expect = "value_or_end"])
        ELSE << >>

\* the stack after a colon
Colon(stack, d) ==
    LET f == stack[Len(stack)]
        put(g) == [stack EXCEPT ![Len(stack)] = g]
    IN  IF f.kind = "dict" /\ f.expect = "colon"
        THEN put([f EXCEPT !.expect = "value"])
        ELSE IF f.kind = "brace" /\ f.expect = "after_first" /\ Hashable(f.key, d)
        THEN put(Frame("dict", "value", <<>>, f.key, TRUE))
        ELSE << >>

\* the stack after an opening bracket c
Open(stack, c) ==
    IF WantsValue(stack[Len(stack)])
    THEN Append(stack, Frame(IF c = "[" THEN "list" ELSE "brace",
                             "value_or_close", <<>>, None, FALSE))
    ELSE << >>

\* a letter, digit, underscore or dot stands against the token that ends
\* before position m
Glued(s, m) == IF m > Len(s) THEN FALSE ELSE s[m] \in WordChars \cup {"."}

\* the int s[i..j-1]: Python allows a leading 0 only in a run of zeros,
\* JSON only the single digit 0
IntTo(s, i, j, d) ==
    IF /\ ~Glued(s, j)
       /\ IF d = "json" THEN j - i = 1 \/ s[i] # "0"
          ELSE s[i] # "0" \/ \A x \in i..(j - 1) : s[x] = "0"
    THEN Token(Num(Decimal(s, i, j - 1)), j)
    ELSE NoToken

\* the JSON fraction s[i..m-1] with its dot at j
FractionTo(s, i, j, m) ==
    IF ~Glued(s, m) /\ m > j + 1 /\ (j - i = 1 \/ s[i] # "0")
    THEN Token(Float(SubSeq(s, i, m - 1)), m)
    ELSE NoToken

NumberTo(s, i, j, d) ==
    IF d = "json" /\ j <= Len(s) /\ s[j] = "."
    THEN FractionTo(s, i, j, SkipWhile(s, j + 1, Range(Digits)))
    ELSE IntTo(s, i, j, d)

\* the number that starts at s[i]
NumberAt(s, i, d) == NumberTo(s, i, SkipWhile(s, i, Range(Digits)), d)

\* the word w that ends before position j: a JSON literal, or a name
WordIs(w, j, d) ==
    IF d = "json" /\ w = <<"t", "r", "u", "e">> THEN Token(Bool(TRUE), j)
    ELSE IF d = "json" /\ w = <<"f", "a", "l", "s", "e">> THEN Token(Bool(FALSE), j)
    ELSE IF d = "json" /\ w = <<"n", "u", "l", "l">> THEN Token(None, j)
    ELSE NoToken

WordTo(s, i, j, d) == WordIs(SubSeq(s, i, j - 1), j, d)

\* the word (a run of \w characters, possibly empty) that starts at s[i]
WordAt(s, i, d) == WordTo(s, i, SkipWhile(s, i, WordChars), d)

\* the JSON string from the quote s[i] to the quote s[j]
StringTo(s, i, j, d) ==
    IF d # "json" \/ j = 0 THEN NoToken
    ELSE IF \E x \in (i + 1)..(j - 1) : s[x] = "\n" THEN NoToken
    ELSE Token(Str(SubSeq(s, i + 1, j - 1)), j + 1)

StringAt(s, i, d) == StringTo(s, i, FindFrom(s, i + 1, <<"\"">>), d)

\* the number, string or word that starts at s[i]
TokenAt(s, i, d) ==
    IF s[i] \in Range(Digits) THEN NumberAt(s, i, d)
    ELSE IF s[i] = "\"" THEN StringAt(s, i, d)
    ELSE WordAt(s, i, d)

At(stack, pos) == [stack |-> stack, pos |-> pos]

\* the machine after the token at s[i] = c, where tok is TokenAt(s, i, d)
Shift(c, i, stack, d, tok) ==
    IF c \in {"[", "{"} THEN At(Open(stack, c), i + 1)
    ELSE IF c \in {"]", "}"} THEN At(Close(stack, c, d), i + 1)
    ELSE IF c = "," THEN At(Comma(stack, d), i + 1)
    ELSE IF c = ":" THEN At(Colon(stack, d), i + 1)
    ELSE IF tok.ok THEN At(Deliver(stack, tok.v, d), tok.next)
    ELSE At(<< >>, i)

ParseStep(s, i, stack, d) == Shift(s[i], i, stack, d, TokenAt(s, i, d))

\* the value read when the text ends with this stack
Finish(stack) ==
    IF Len(stack) = 1 /\ stack[1].expect \in {"comma_or_end", "value_or_end"}
    THEN Parsed(IF stack[1].kind = "tuple" THEN Tuple(stack[1].items)
                ELSE stack[1].items[1])
    ELSE NoParse

\* the machine: from position i0 with the stack, to the end of s
RECURSIVE ParseFrom(_, _, _, _), ParseAt(_, _, _, _), ParseNext(_, _, _)
ParseFrom(s, i0, stack, d) == ParseAt(s, SkipWhile(s, i0, Blank(d)), stack, d)

ParseAt(s, i, stack, d) ==
    IF stack = << >> THEN NoParse
    ELSE IF i > Len(s) THEN Finish(stack)
    ELSE ParseNext(s, ParseStep(s, i, stack, d), d)

ParseNext(s, st, d) == ParseFrom(s, st.pos, st.stack, d)

\* line 223: ast.literal_eval(data_match.group())
literal_eval(s) == ParseFrom(s, 1, <<TopFrame>>, "python")

\* line 341: json.loads(content), for a str content
json_loads(s) == ParseFrom(s, 1, <<TopFrame>>, "json")

-----------------------------------------------------------------------------
(* The chart of a directive (lines 213 to 264).                            *)

IsNum(v) == v.k = "num"

IsList(v) == v.k = "list"

IsDict(v) == v.k = "dict"

\* all(isinstance(item, (int, float)) for item in plot_data)
AllNumbers(v) == \A i \in DOMAIN v.items : v.items[i].k \in {"num", "float"}

\* all(isinstance(sublist, list) for sublist in plot_data)
AllLists(v) == \A i \in DOMAIN v.items : IsList(v.items[i])

\* range(n), as the list of its numbers
RangeOf(n) == List([i \in 1..n |-> Num(i - 1)])

\* list(plot_data.keys()) and list(plot_data.values())
Keys(v) == List([i \in DOMAIN v.items |-> v.items[i][1]])

Values(v) == List([i \in DOMAIN v.items |-> v.items[i][2]])

\* a call of matplotlib: plt.scatter, plt.plot or plt.bar with its arguments
Call(fn, args) == [fn |-> fn, args |-> args]

\* lines 227 to 238: the calls made for a scatter directive
ScatterCalls(plot_data) ==
    IF IsList(plot_data)
    THEN IF AllNumbers(plot_data)
         THEN <<Call("scatter", <<RangeOf(Len(plot_data.items)), plot_data>>)>>
         ELSE IF Len(plot_data.items) = 2 /\ AllLists(plot_data)
         THEN <<Call("scatter", <<plot_data.items[1], plot_data.items[2]>>)>>
         ELSE <<>>
    ELSE IF IsDict(plot_data)
    THEN <<Call("scatter", <<Keys(plot_data), Values(plot_data)>>)>>
    ELSE <<>>

\* lines 239 to 245: the calls made for a line directive
LineCalls(plot_data) ==
    IF IsDict(plot_data)
    THEN <<Call("plot", <<Keys(plot_data), Values(plot_data)>>)>>
    ELSE IF IsList(plot_data) /\ Len(plot_data.items) = 2
    THEN <<Call("plot", <<plot_data.items[1], plot_data.items[2]>>)>>
    ELSE <<Call("plot", <<plot_data>>)>>

\* lines 246 to 252: the calls made for a bar directive
BarCalls(plot_data) ==
    IF IsDict(plot_data)
    THEN <<Call("bar", <<Keys(plot_data), Values(plot_data)>>)>>
    ELSE IF IsList(plot_data) /\ Len(plot_data.items) = 2
    THEN <<Call("bar", <<plot_data.items[1], plot_data.items[2]>>)>>
    ELSE <<Call("bar", <<RangeOf(Len(plot_data.items)), plot_data>>)>>

SCATTER == <<"s", "c", "a", "t", "t", "e", "r">>

LINE == <<"l", "i", "n", "e">>

BAR == <<"b", "a", "r">>

\* lines 227 to 252: the if / elif chain over plot_type, which has no
\* branch for any other type
PlotCalls(plot_type, plot_data) ==
    IF plot_type = SCATTER THEN ScatterCalls(plot_data)
    ELSE IF plot_type = LINE THEN LineCalls(plot_data)
    ELSE IF plot_type = BAR THEN BarCalls(plot_data)
    ELSE <<>>

\* a flat sequence of numbers
IsFlat(v) == IsList(v) /\ AllNumbers(v)

\* What a matplotlib call may do. matplotlib is outside the repository:
\* flat numeric sequences of equal length (or two scalars) are drawn, plot
\* and scatter refuse flat sequences of different lengths, plot(ys) draws a
\* flat numeric ys against its indices, and every other shape of argument
\* is left open to either outcome.
DrawOutcomes(call) ==
    IF Len(call.args) = 1
    THEN IF IsFlat(call.args[1]) THEN {"ok"} ELSE {"ok", "raise"}
    ELSE IF IsNum(call.args[1]) /\ IsNum(call.args[2]) THEN {"ok"}
    ELSE IF IsFlat(call.args[1]) /\ IsFlat(call.args[2])
    THEN IF Len(call.args[1].items) = Len(call.args[2].items) THEN {"ok"}
         ELSE IF call.fn = "bar" THEN {"ok", "raise"}
         ELSE {"raise"}
    ELSE {"ok", "raise"}

\* the x and y series a call draws (plot(ys) draws ys against 0..n-1)
XsOf(call) ==
    IF Len(call.args) = 1 THEN RangeOf(Len(call.args[1].items)) ELSE call.args[1]

YsOf(call) ==
    IF Len(call.args) = 1 THEN call.args[1] ELSE call.args[2]

\* plot_url: None (line 214), or the data URI of the figure saved at lines
\* 258 to 261, kept as the calls that drew on the figure
NoPlot == [present |-> FALSE, figure |-> <<>>]

PlotUrl(calls) == [present |-> TRUE, figure |-> calls]

\* lines 213 to 223: what the searches and the literal parser find in the
\* generated text
DirectiveWith(found, plot_type, data_match, plot_data) ==
    [plot_match |-> found,
     plot_type  |-> found /\ plot_type.found,
     data_match |-> found /\ data_match.found,
     type       |-> Lower(plot_type.word),
     evaluated  |-> plot_data.ok,
     plot_data  |-> plot_data.v]

DirectiveOf(found, plot_type, data_match) ==
    DirectiveWith(found, plot_type, data_match, literal_eval(data_match.text))

DirectiveIn(found, plot_info) ==
    DirectiveOf(found, TypeSearch(plot_info), DataSearch(plot_info))

DirectiveAt(res, plot_match) ==
    DirectiveIn(plot_match.found, GroupOne(res, plot_match))

Directive(res) == DirectiveAt(res, PlotSearch(res, 1))

\* the calls lines 225 to 252 make for directive d (none without a type
\* and a payload the parser accepts)
CallsIn(d) ==
    IF d.plot_type /\ d.data_match /\ d.evaluated
    THEN PlotCalls(d.type, d.plot_data)
    ELSE <<>>

CallsOf(res) == CallsIn(Directive(res))

\* how matplotlib may answer the calls
OutcomesFor(calls) == IF calls = <<>> THEN {"ok"} ELSE DrawOutcomes(calls[1])

OutcomesOf(res) == OutcomesFor(CallsOf(res))

\* what lines 213 to 281 give for a generated text: the reply's analysis
\* and plot_url, or an exception (turned into a 500 at lines 279 to 281)
Reply(raised, analysis, plot_url) ==
    [raised |-> raised, analysis |-> analysis, plot_url |-> plot_url]

\* lines 216 to 278, for directive d, the text without its PLOT sections
\* and matplotlib's answer draw
RespondTo(d, analysis, draw) ==
    IF d.plot_type /\ d.data_match
    THEN IF ~d.evaluated \/ draw = "raise"
         THEN Reply(TRUE, <<>>, NoPlot)
         ELSE Reply(FALSE, analysis, PlotUrl(PlotCalls(d.type, d.plot_data)))
    ELSE Reply(FALSE, analysis, NoPlot)

Respond(res, draw) == RespondTo(Directive(res), RemovePlotSection(res), draw)

-----------------------------------------------------------------------------
(* The conversation registry and the two handlers.                         *)

Requests == 1..MaxCalls

\* caller-supplied conversation identifiers
ConvIds == { <<"2">>, <<"c", "1">> }

\* what the model may generate (combined_chain.invoke returns it), here a
\* plain answer, an answer with a directive, and one whose payload is no
\* literal
Answers ==
    { <<"o", "k">>,
      <<"s", "e", "e", " ">> \o PLOT \o TYPE \o <<" ">> \o LINE
          \o <<" ", "[", "1", ",", "2", ",", "3", "]">> \o END_PLOT,
      PLOT \o TYPE \o BAR \o <<"[", "1", ",", ",", "2", "]">> \o END_PLOT }

USER == <<"u", "s", "e", "r">>

ASSISTANT == <<"a", "s", "s", "i", "s", "t", "a", "n", "t">>

Message(role, content) == [role |-> role, content |-> content]

\* str(n) for n >= 0
RECURSIVE IntToStr(_)
IntToStr(n) ==
    IF n < 10 THEN <<Digits[n + 1]>>
    ELSE IntToStr(n \div 10) \o <<Digits[(n % 10) + 1]>>

\* The query of request r. The handler never looks into a query (it hands it
\* to the retrieval and to the prompt and records it), so one query for each
\* request, different from the others', stands for all.
Query(r) == <<"q">> \o IntToStr(r)

\* "\n".join(lines)
RECURSIVE Join(_)
Join(lines) ==
    IF lines = <<>> THEN <<>>
    ELSE IF Len(lines) = 1 THEN lines[1]
    ELSE lines[1] \o <<"\n">> \o Join(Tail(lines))

\* a faulty slice, which keeps the last message
Whole(messages) == messages

\* line 194: conversation.messages[:-1]
AllButLast(messages) == SubSeq(messages, 1, Len(messages) - 1)

\* line 194: the chat_history of the prompt
HistoryBlock(messages) ==
    LET prior == AllButLast(messages)
    IN  Join([i \in 1..Len(prior) |->
                 prior[i].role \o <<":", " ">> \o prior[i].content])

\* lines 154 to 156 and 136: the registry with identifier id bound to ref
Bind(registry, id, ref) ==
    [x \in DOMAIN registry \cup {id} |-> IF x = id THEN ref ELSE registry[x]]

\* lines 154 to 156: the registry after the handler made sure of id (the
\* new Conversation, if one is made, is the next object of the heap)
Ensured(registry, id, ref) ==
    IF id \in DOMAIN registry THEN registry ELSE Bind(registry, id, ref)

\* line 135: str(len(conversations) + 1)
NextId(registry) == IntToStr(Cardinality(DOMAIN registry) + 1)

\* two faulty appends: one writes over the turns recorded so far, one
\* records nothing
Overwritten(messages, role, content) == <<Message(role, content)>>

Unrecorded(messages, role, content) == messages

\* lines 164 and 210: conversation.messages.append({"role": .., "content": ..})
Appended(messages, role, content) == Append(messages, Message(role, content))

\* The positions of a handler. analyze_question is a coroutine without any
\* await (retrieval, generation and drawing are blocking calls), so between
\* line 150 and its return or raise it holds the event loop: the positions
\* in Running are visible steps of one handler at a time.
Running == {"retrieve", "record_user", "generate", "record_assistant", "plot"}

LoopFree == \A r \in Requests : pc[r] \notin Running

NoReply == [status |-> 0, detail |-> "", analysis |-> <<>>,
            transcript |-> <<>>, plot_url |-> NoPlot]

\* lines 279 to 281: HTTPException(status_code=500, detail=str(e)); detail
\* names the call that raised
Http500(detail) == [NoReply EXCEPT !.status = 500, !.detail = detail]

\* lines 274 to 278
Http200(analysis, transcript, plot_url) ==
    [status |-> 200, detail |-> "", analysis |-> analysis,
     transcript |-> transcript, plot_url |-> plot_url]

ServerInit ==
    /\ conversations = << >>
    /\ heap = << >>
    /\ start_responses = << >>
    /\ pc = [r \in Requests |-> "new"]
    /\ question = [r \in Requests |-> [query |-> <<>>, conversation_id |-> <<>>]]
    /\ conversation = [r \in Requests |-> 0]
    /\ chat_history = [r \in Requests |-> <<>>]
    /\ result = [r \in Requests |-> <<>>]
    /\ response = [r \in Requests |-> NoReply]
    /\ created = [r \in Requests |-> FALSE]
    /\ before = [r \in Requests |-> <<>>]

PureIdle == arg = <<>> /\ ret = <<>> /\ step = 0

Init == ServerInit /\ PureIdle

\* lines 133 to 137
start_conversation ==
    /\ LoopFree
    /\ Len(start_responses) < MaxStarts
    /\ LET conversation_id == NextId(conversations)
       IN  /\ heap' = Append(heap, <<>>)
           /\ conversations' = Bind(conversations, conversation_id, Len(heap) + 1)
           /\ start_responses' = Append(start_responses, conversation_id)
    /\ UNCHANGED <<pc, question, conversation, chat_history, result, response,
                   created, before, pure_vars>>

\* a client posts /analyze: the request waits for the event loop
Post(r, query, conversation_id) ==
    /\ pc[r] = "new"
    /\ IF r = 1 THEN TRUE ELSE pc[r - 1] # "new"
    /\ question' = [question EXCEPT
                       ![r] = [query |-> query, conversation_id |-> conversation_id]]
    /\ pc' = [pc EXCEPT ![r] = "waiting"]
    /\ UNCHANGED <<conversations, heap, start_responses, conversation,
                   chat_history, result, response, created, before, pure_vars>>

\* lines 150 to 158: the handler starts, makes sure of the conversation and
\* binds it
Ensure(r) ==
    /\ pc[r] = "waiting"
    /\ LoopFree
    /\ LET id == question[r].conversation_id
       IN  /\ conversations' = Ensured(conversations, id, Len(heap) + 1)
           /\ heap' = IF id \in DOMAIN conversations THEN heap ELSE Append(heap, <<>>)
           /\ created' = [created EXCEPT ![r] = id \notin DOMAIN conversations]
           /\ conversation' = [conversation EXCEPT ![r] = conversations'[id]]
    /\ pc' = [pc EXCEPT ![r] = "retrieve"]
    /\ UNCHANGED <<start_responses, question, chat_history, result, response,
                   before, pure_vars>>

\* lines 161 and 162: vector_store.similarity_search returns or raises
Retrieve(r) ==
    /\ pc[r] = "retrieve"
    /\ \E ok \in BOOLEAN :
          IF ok
          THEN pc' = [pc EXCEPT ![r] = "record_user"] /\ UNCHANGED response
          ELSE /\ pc' = [pc EXCEPT ![r] = "failed"]
               /\ response' = [response EXCEPT ![r] = Http500("retrieval")]
    /\ UNCHANGED <<conversations, heap, start_responses, question, conversation,
                   chat_history, result, created, before, pure_vars>>

\* line 164
RecordUser(r) ==
    /\ pc[r] = "record_user"
    /\ before' = [before EXCEPT ![r] = heap[conversation[r]]]
    /\ heap' = [heap EXCEPT ![conversation[r]] = Appended(@, USER, question[r].query)]
    /\ pc' = [pc EXCEPT ![r] = "generate"]
    /\ UNCHANGED <<conversations, start_responses, question, conversation,
                   chat_history, result, response, created, pure_vars>>

\* lines 191 to 208: combined_chain.invoke builds the prompt (its
\* chat_history from the messages as they are now) and calls the model,
\* which returns a string or raises
Generate(r) ==
    /\ pc[r] = "generate"
    /\ chat_history' = [chat_history EXCEPT ![r] = HistoryBlock(heap[conversation[r]])]
    /\ \/ /\ pc' = [pc EXCEPT ![r] = "failed"]
          /\ response' = [response EXCEPT ![r] = Http500("generation")]
          /\ UNCHANGED result
       \/ \E text \in Answers :
             /\ result' = [result EXCEPT ![r] = text]
             /\ pc' = [pc EXCEPT ![r] = "record_assistant"]
             /\ UNCHANGED response
    /\ UNCHANGED <<conversations, heap, start_responses, question, conversation,
                   created, before, pure_vars>>

\* line 210
RecordAssistant(r) ==
    /\ pc[r] = "record_assistant"
    /\ heap' = [heap EXCEPT ![conversation[r]] = Appended(@, ASSISTANT, result[r])]
    /\ pc' = [pc EXCEPT ![r] = "plot"]
    /\ UNCHANGED <<conversations, start_responses, question, conversation,
                   chat_history, result, response, created, before, pure_vars>>

\* lines 274 to 281: the reply of request r, or the 500
Replied(r, reply) ==
    IF reply.raised
    THEN /\ pc' = [pc EXCEPT ![r] = "failed"]
         /\ response' = [response EXCEPT ![r] = Http500("chart")]
    ELSE /\ pc' = [pc EXCEPT ![r] = "done"]
         /\ response' = [response EXCEPT ![r] =
                Http200(reply.analysis, heap[conversation[r]], reply.plot_url)]

\* lines 213 to 281 for each text the model may generate: what the handler
\* may reply, one reply for each way matplotlib may answer
Replies == [text \in Answers |-> {Respond(text, draw) : draw \in OutcomesOf(text)}]

\* lines 213 to 281: the chart, the removal of the directive and the reply
Plot(r) ==
    /\ pc[r] = "plot"
    /\ \E reply \in Replies[result[r]] : Replied(r, reply)
    /\ UNCHANGED <<conversations, heap, start_responses, question, conversation,
                   chat_history, result, created, before, pure_vars>>

\* the steps of analyze_question
analyze_question(r) ==
    \/ Ensure(r)
    \/ Retrieve(r)
    \/ RecordUser(r)
    \/ Generate(r)
    \/ RecordAssistant(r)
    \/ Plot(r)

Next ==
    \/ start_conversation
    \/ \E r \in Requests, id \in ConvIds : Post(r, Query(r), id)
    \/ \E r \in Requests : analyze_question(r)

Spec == Init /\ [][Next]_vars

\* the server when clients only post /analyze
NextAnalyze ==
    \/ \E r \in Requests, id \in ConvIds : Post(r, Query(r), id)
    \/ \E r \in Requests : analyze_question(r)

SpecAnalyze == Init /\ [][NextAnalyze]_vars

-----------------------------------------------------------------------------
(* parse_llm_output (lines 332 to 346).                                    *)

\* an AIMessage with its content
AIMessage(content) == [k |-> "AIMessage", n |-> 0, items |-> <<content>>]

\* lines 335 to 338
ContentOf(llm_output) ==
    IF llm_output.k = "AIMessage" THEN llm_output.items[1] ELSE llm_output

\* the value of key in the dict d
Get(d, key) ==
    d.items[CHOOSE i \in DOMAIN d.items : d.items[i][1] = Str(key)][2]

Has(d, key) == \E i \in DOMAIN d.items : d.items[i][1] = Str(key)

NODES == <<"n", "o", "d", "e", "s">>

RELATIONSHIPS == <<"r", "e", "l", "a", "t", "i", "o", "n", "s", "h", "i", "p", "s">>

SOURCE == <<"s", "o", "u", "r", "c", "e">>

TARGET == <<"t", "a", "r", "g", "e", "t">>

STRENGTH == <<"s", "t", "r", "e", "n", "g", "t", "h">>

\* key is a field of d that holds a value of one of the kinds
HasKind(d, key, kinds) == IF Has(d, key) THEN Get(d, key).k \in kinds ELSE FALSE

\* lines 283 to 286: pydantic accepts v as a RelationshipInfo
ValidRelationship(v) ==
    /\ IsDict(v)
    /\ HasKind(v, SOURCE, {"str"})
    /\ HasKind(v, TARGET, {"str"})
    /\ HasKind(v, STRENGTH, {"num", "float"})

\* v is a list whose items all are of one of the kinds
ListOfKind(v, kinds) ==
    IF IsList(v) THEN \A i \in DOMAIN v.items : v.items[i].k \in kinds ELSE FALSE

ListOfRelationships(v) ==
    IF ListOfKind(v, {"dict"})
    THEN \A i \in DOMAIN v.items : ValidRelationship(v.items[i])
    ELSE FALSE

\* lines 288 to 290: pydantic accepts the keyword arguments data as a
\* SystemsAnalysis: both fields are required, a key that is no field is
\* ignored. (The inputs hold no value that one major version of pydantic
\* converts and the other refuses: no number where a str is declared, no
\* string or boolean where the float is.)
ValidAnalysis(data) ==
    /\ IF Has(data, NODES) THEN ListOfKind(Get(data, NODES), {"str"}) ELSE FALSE
    /\ IF Has(data, RELATIONSHIPS)
       THEN ListOfRelationships(Get(data, RELATIONSHIPS))
       ELSE FALSE

\* a RelationshipInfo
RelationshipInfo(v) ==
    [source |-> Get(v, SOURCE).items, target |-> Get(v, TARGET).items,
     strength |-> Get(v, STRENGTH)]

\* what parse_llm_output gives its caller: a SystemsAnalysis, or an exception
SystemsAnalysis(nodes, relationships) ==
    [raised |-> "", nodes |-> nodes, relationships |-> relationships]

Raises(exception) == [raised |-> exception, nodes |-> <<>>, relationships |-> <<>>]

\* line 346
DefaultAnalysis == SystemsAnalysis(<<>>, <<>>)

\* line 343: SystemsAnalysis(**data), for a dict data
Validated(nodes, relationships) ==
    SystemsAnalysis([i \in DOMAIN nodes.items |-> nodes.items[i].items],
                    [i \in DOMAIN relationships.items |->
                        RelationshipInfo(relationships.items[i])])

\* lines 343 to 346: ** of a value that is no mapping is a TypeError, which
\* line 344 catches; pydantic's ValidationError is a ValueError that is no
\* JSONDecodeError, which line 344 does not catch
Construct(data) ==
    IF ~IsDict(data) THEN DefaultAnalysis
    ELSE IF ValidAnalysis(data)
    THEN Validated(Get(data, NODES), Get(data, RELATIONSHIPS))
    ELSE Raises("ValidationError")

\* lines 341 to 346, for the answer of json.loads: a JSONDecodeError is
\* caught at line 344
Loaded(parsed) == IF parsed.ok THEN Construct(parsed.v) ELSE DefaultAnalysis

\* lines 340 to 346: json.loads of a content that is no str is a TypeError,
\* caught at line 344
ParseContent(content) ==
    IF content.k = "str" THEN Loaded(json_loads(content.items)) ELSE DefaultAnalysis

\* lines 332 to 346
parse_llm_output(llm_output) == ParseContent(ContentOf(llm_output))

-----------------------------------------------------------------------------
(* The outputs of the model that parse_llm_output is studied on.           *)

\* json.dumps, to write the documents
RECURSIVE Dumps(_), DumpsItems(_), DumpsPairs(_)
Dumps(v) ==
    IF v.k = "num" THEN IntToStr(v.n)
    ELSE IF v.k = "float" THEN v.items
    ELSE IF v.k = "str" THEN <<"\"">> \o v.items \o <<"\"">>
    ELSE IF v.k = "none" THEN <<"n", "u", "l", "l">>
    ELSE IF v.k = "bool"
    THEN IF v.n = 1 THEN <<"t", "r", "u", "e">> ELSE <<"f", "a", "l", "s", "e">>
    ELSE IF v.k = "list" THEN <<"[">> \o DumpsItems(v.items) \o <<"]">>
    ELSE <<"{">> \o DumpsPairs(v.items) \o <<"}">>

DumpsItems(items) ==
    IF items = <<>> THEN <<>>
    ELSE IF Len(items) = 1 THEN Dumps(items[1])
    ELSE Dumps(items[1]) \o <<",", " ">> \o DumpsItems(Tail(items))

DumpsPairs(pairs) ==
    IF pairs = <<>> THEN <<>>
    ELSE IF Len(pairs) = 1 THEN Dumps(pairs[1][1]) \o <<":", " ">> \o Dumps(pairs[1][2])
    ELSE Dumps(pairs[1][1]) \o <<":", " ">> \o Dumps(pairs[1][2])
             \o <<",", " ">> \o DumpsPairs(Tail(pairs))

\* a relationship A -> B, with the fields named
Rel(fields) ==
    Dict([i \in 1..Len(fields) |->
             <<Str(fields[i]),
               IF fields[i] = STRENGTH THEN Float(<<"0", ".", "5">>)
               ELSE IF fields[i] = SOURCE THEN Str(<<"A">>) ELSE Str(<<"B">>)>>])

\* what a document may hold under "nodes" (<< >>: no such key)
NodesChoices ==
    { << >>, <<List(<<>>)>>, <<List(<<Str(<<"A">>)>>)>>,
      <<List(<<Str(<<"A">>), Str(<<"B">>)>>)>>, <<Str(<<"A">>)>>, <<None>>,
      <<List(<<List(<<>>)>>)>> }

\* what a document may hold under "relationships" (<< >>: no such key)
RelationshipsChoices ==
    { << >>, <<List(<<>>)>>, <<List(<<Rel(<<SOURCE, TARGET, STRENGTH>>)>>)>>,
      <<List(<<Rel(<<SOURCE, TARGET>>)>>)>>, <<List(<<Str(<<"A">>)>>)>>,
      <<Dict(<<>>)>>, <<List(<<Rel(<<SOURCE, TARGET, STRENGTH, NODES>>)>>)>> }

Field(key, choice) == IF choice = << >> THEN << >> ELSE << <<Str(key), choice[1]>> >>

\* the JSON objects
Documents ==
    { Dict(Field(NODES, n) \o Field(RELATIONSHIPS, r) \o x) :
        n \in NodesChoices, r \in RelationshipsChoices,
        x \in { << >>, << <<Str(<<"x">>), Num(1)>> >> } }

\* JSON values that are no object
Scalars ==
    { List(<<Num(1), Num(2)>>), List(<<>>), Str(<<"a", "b", "c">>), Num(5),
      Float(<<"0", ".", "5">>), None, Bool(TRUE) }

\* texts that are no JSON
NotJson ==
    { <<"n", "o", "t", " ", "j", "s", "o", "n">>, << >>, <<"{">>,
      <<"{", "\"", "n", "o", "d", "e", "s", "\"", ":", " ", "[", "}">>,
      <<"[", "1", ",", "]">>, <<"{", "n", "o", "d", "e", "s", ":", "1", "}">>,
      <<"0", "1">> }

\* the contents: a text (a document, a scalar, no JSON at all) or no text
Contents ==
    { Str(Dumps(v)) : v \in Documents \cup Scalars }
        \cup { Str(t) : t \in NotJson }
        \cup { None, Num(7), List(<<Str(<<"a">>)>>) }

\* what the chain hands to parse_llm_output: an AIMessage, or the content
LlmOutputs == Contents \cup { AIMessage(c) : c \in Contents }

-----------------------------------------------------------------------------
(* Generated texts that the chart pipeline is studied on.                  *)

\* pieces of markers, a blank and a letter
Frags == { PLOT, END_PLOT, <<"P", "L">>, <<"O", "T", ":">>, <<" ">>, <<"a">> }

\* every concatenation of at most n pieces
RECURSIVE TextsOf(_)
TextsOf(n) ==
    IF n = 0 THEN { <<>> }
    ELSE { <<>> } \cup { f \o t : f \in Frags, t \in TextsOf(n - 1) }

\* the type part of a directive (<< >>: none)
TypeParts ==
    { << >>, TYPE \o <<" ">> \o SCATTER, TYPE \o <<" ">> \o LINE, TYPE \o BAR,
      <<"T", "y", "p", "e", ":", " ", "L", "i", "n", "e">>,
      TYPE \o <<" ">> \o <<"p", "i", "e">> }

\* the payload of a directive (<< >>: none)
Payloads ==
    { << >>,
      <<"[", "]">>,
      <<"[", "5", "]">>,
      <<"[", "3", ",", "5", "]">>,
      <<"[", "1", ",", " ", "2", ",", " ", "3", "]">>,
      <<"[", "[", "1", ",", "2", "]", ",", "[", "3", ",", "4", "]", "]">>,
      <<"[", "[", "1", ",", "2", "]", ",", "[", "3", "]", "]">>,
      <<"[", "1", ",", "[", "2", "]", ",", "3", "]">>,
      <<"{", "1", ":", "1", "0", ",", "2", ":", "2", "0", "}">>,
      <<"[", "1", ",", ",", "2", "]">>,
      <<"[", "[", "1", ",", "2", "]">>,
      <<"[", "1", ",", "2">>,
      <<"[", "a", "]">> }

\* an answer with one directive
Directives ==
    { pre \o PLOT \o ty \o sep \o data \o END_PLOT \o post :
        pre \in { << >>, <<"s", "e", "e", " ">> },
        ty \in TypeParts,
        sep \in { <<"\n">>, <<" ">> },
        data \in Payloads,
        post \in { << >>, <<" ", "b">> } }

Generated == TextsOf(MaxFrags) \cup Directives

InitDirective == ServerInit /\ arg \in Generated /\ ret = <<>> /\ step = 0

\* lines 213 to 281 applied to the generated text
Analyse ==
    /\ step = 0
    /\ \E draw \in OutcomesOf(arg) : ret' = <<Respond(arg, draw)>>
    /\ step' = 1
    /\ UNCHANGED <<arg, server_vars>>

\* line 271 applied to the analysis that line 271 produced
Again ==
    /\ step = 1
    /\ ~ret[1].raised
    /\ ret' = Append(ret, Reply(FALSE, RemovePlotSection(ret[1].analysis), NoPlot))
    /\ step' = 2
    /\ UNCHANGED <<arg, server_vars>>

NextDirective == Analyse \/ Again

SpecDirective == InitDirective /\ [][NextDirective]_vars

InitParse == ServerInit /\ arg \in LlmOutputs /\ ret = <<>> /\ step = 0

\* the chain of lines 348 to 353 hands the model's output to parse_llm_output
ParseOutput ==
    /\ step = 0
    /\ ret' = <<parse_llm_output(arg)>>
    /\ step' = 1
    /\ UNCHANGED <<arg, server_vars>>

NextParse == ParseOutput

SpecParse == InitParse /\ [][NextParse]_vars

-----------------------------------------------------------------------------
(* The claims about the conversation registry and analyze_question.        *)

IsPrefix(s, t) == Len(s) <= Len(t) /\ SubSeq(t, 1, Len(s)) = s

\* the turns recorded under identifier id
Turns(id) == heap[conversations[id]]

\* the requests posted on identifier id
CallsOn(id) == {r \in Requests : pc[r] # "new" /\ question[r].conversation_id = id}

Finished(r) == pc[r] \in {"done", "failed"}

\* request r failed in the call named by detail
FailedIn(r, detail) == pc[r] = "failed" /\ response[r].detail = detail

\* request r is past line 164 / past line 210
PastUser(r) ==
    \/ pc[r] \in {"generate", "record_assistant", "plot", "done"}
    \/ FailedIn(r, "generation") \/ FailedIn(r, "chart")

PastAssistant(r) == pc[r] \in {"plot", "done"} \/ FailedIn(r, "chart")

\* how many turns request r has recorded
Recorded(r) == IF PastAssistant(r) THEN 2 ELSE IF PastUser(r) THEN 1 ELSE 0

\* how many turns the requests 1..n have recorded under id
RECURSIVE RecordedOn(_, _)
RecordedOn(n, id) ==
    IF n = 0 THEN 0
    ELSE RecordedOn(n - 1, id) + (IF n \in CallsOn(id) THEN Recorded(n) ELSE 0)

UserTurn(r) == Message(USER, question[r].query)

AssistantTurn(r) == Message(ASSISTANT, result[r])

\* the turns of request r stand where it recorded them
InPlace(r) ==
    /\ PastUser(r) =>
          /\ Len(heap[conversation[r]]) > Len(before[r])
          /\ heap[conversation[r]][Len(before[r]) + 1] = UserTurn(r)
    /\ PastAssistant(r) =>
          /\ Len(heap[conversation[r]]) > Len(before[r]) + 1
          /\ heap[conversation[r]][Len(before[r]) + 2] = AssistantTurn(r)

C2_Ordering ==
    \A r \in Requests :
        /\ pc[r] \in {"generate", "record_assistant"}
              => heap[conversation[r]] = Append(before[r], UserTurn(r))
        /\ pc[r] = "plot"
              => heap[conversation[r]]
                    = Append(Append(before[r], UserTurn(r)), AssistantTurn(r))
        /\ FailedIn(r, "generation") =>
              /\ IsPrefix(Append(before[r], UserTurn(r)), heap[conversation[r]])
              /\ Len(heap[conversation[r]]) > Len(before[r]) + 1
                    => heap[conversation[r]][Len(before[r]) + 2].role = USER
              /\ LoopFree /\ (\A q \in Requests \ {r} : pc[q] \in {"new", "waiting"})
                    => heap[conversation[r]] = Append(before[r], UserTurn(r))
        /\ pc[r] = "done" /\ created[r]
              => response[r].transcript = <<UserTurn(r), AssistantTurn(r)>>

\* C2's case: one call's generation has failed and another call, the first
\* on its identifier, has been answered
C2_Witness ==
    \E r, q \in Requests :
        /\ FailedIn(r, "generation")
        /\ pc[q] = "done" /\ created[q]

\* C4 as stated: no step deletes or replaces a conversation or takes a
\* recorded turn away, and /start_conversation returns an identifier that
\* was not in the registry.
C4_AsStated ==
    [][ /\ \A id \in DOMAIN conversations :
              /\ id \in DOMAIN conversations'
              /\ IsPrefix(heap[conversations[id]], heap'[conversations'[id]])
        /\ start_responses' # start_responses
              => start_responses'[Len(start_responses')] \notin DOMAIN conversations
      ]_vars

\* the lines of a history block: "role: content" of each message
Lines(messages) ==
    [i \in DOMAIN messages |-> messages[i].role \o <<":", " ">> \o messages[i].content]

\* C10: the history block given to the model holds exactly the turns the
\* conversation held before the call recorded its user turn, in their
\* order, as "role: content" lines, and not the call's own user turn.
C10_History ==
    \A r \in Requests :
        pc[r] \in {"record_assistant", "plot", "done"}
            \/ FailedIn(r, "generation") \/ FailedIn(r, "chart")
        => chat_history[r] = Join(Lines(before[r]))

\* C10's case: an answered call whose conversation held, before it, the
\* unanswered user turn of a call whose generation failed
C10_Witness ==
    \E r, q \in Requests :
        /\ pc[r] = "done"
        /\ FailedIn(q, "generation")
        /\ before[r] = <<UserTurn(q)>>
        /\ chat_history[r] = USER \o <<":", " ">> \o question[q].query

-----------------------------------------------------------------------------
(* The claims about the chart pipeline and parse_llm_output.               *)

\* t holds a PLOT: with an END_PLOT somewhere after it
HasMarkerPair(t) ==
    \E i \in 1..Len(t) :
        /\ StartsAt(t, i, PLOT)
        /\ \E j \in (i + Len(PLOT))..Len(t) : StartsAt(t, j, END_PLOT)

\* a is t without the white space at its two ends
IsTrimOf(a, t) ==
    /\ a # <<>> => a[1] \notin Whitespace /\ a[Len(a)] \notin Whitespace
    /\ \E i \in 1..(Len(t) + 1) :
          /\ a = SubSeq(t, i, i + Len(a) - 1)
          /\ \A k \in 1..Len(t) :
                (k < i \/ k > i + Len(a) - 1) => t[k] \in Whitespace

\* the directive's content fails to parse: no type, no payload, or a
\* payload that is no literal
ParseFails(d) == d.plot_match /\ ~(d.plot_type /\ d.data_match /\ d.evaluated)

\* the reply is a success without a chart whose text is res without its
\* directive
PlainReply(reply, res) ==
    /\ ~reply.raised
    /\ ~reply.plot_url.present
    /\ reply.analysis = RemovePlotSection(res)

\* C3 as stated: a directive whose content fails to parse does not fail
\* the request: the reply has no chart and the text without the directive.
C3_AsStated ==
    step >= 1 /\ ParseFails(Directive(arg)) => PlainReply(ret[1], arg)

\* C6 as stated: removing the directive from a text it was removed from
\* changes nothing.
C6_AsStated == step = 2 => ret[2].analysis = ret[1].analysis

\* C7 as stated: a generated text without a PLOT: that an END_PLOT follows
\* gives no chart and is returned unchanged, character for character.
C7_AsStated ==
    step >= 1 /\ ~HasMarkerPair(arg)
        => ~ret[1].raised /\ ~ret[1].plot_url.present /\ ret[1].analysis = arg

\* C7, amended: a generated text without a PLOT: that an END_PLOT follows
\* gives no chart and is returned without the white space at its two ends,
\* every other character unchanged.
C7_NoDirective ==
    step >= 1 /\ ~HasMarkerPair(arg)
        => /\ ~ret[1].raised
           /\ ~ret[1].plot_url.present
           /\ IsTrimOf(ret[1].analysis, arg)

\* C7's case: a text with markers, none of them a PLOT: that an END_PLOT
\* follows, and white space at an end, has been answered
C7_Witness ==
    /\ step >= 1
    /\ ~HasMarkerPair(arg)
    /\ FindFrom(arg, 1, PLOT) # 0
    /\ FindFrom(arg, 1, END_PLOT) # 0
    /\ arg[Len(arg)] \in Whitespace
    /\ ret[1].analysis # arg

Supported == {SCATTER, LINE, BAR}

\* the directive has a type and a payload that is a literal
Parses(d) == d.plot_type /\ d.data_match /\ d.evaluated

\* the figure of the reply is drawn by one call, ys against 0..n-1
DrawnAgainstIndices(reply, ys) ==
    /\ ~reply.raised
    /\ reply.plot_url.present
    /\ Len(reply.plot_url.figure) = 1
    /\ XsOf(reply.plot_url.figure[1]) = RangeOf(Len(ys.items))
    /\ YsOf(reply.plot_url.figure[1]) = ys

FlatChart(d) == Parses(d) /\ d.type \in Supported /\ IsFlat(d.plot_data)

C8Holds(d, reply) == FlatChart(d) => DrawnAgainstIndices(reply, d.plot_data)

\* C8 as stated: a flat sequence of n numbers, for every n and each of
\* scatter, line and bar, is drawn with xs = 0..n-1 and ys = the sequence.
C8_AsStated == step >= 1 => C8Holds(Directive(arg), ret[1])

\* a scatter payload that is a list, neither of numbers only nor of two lists
BadScatter(d) ==
    /\ d.type = SCATTER
    /\ IsList(d.plot_data)
    /\ ~AllNumbers(d.plot_data)
    /\ ~(Len(d.plot_data.items) = 2 /\ AllLists(d.plot_data))

Rejected(d) == Parses(d) /\ (d.type \notin Supported \/ BadScatter(d))

\* C9 as stated: a directive of an unrecognized type, and a scatter
\* directive whose list is neither of numbers only nor of two lists, gives
\* no chart, no error, and the text without the directive.
C9_AsStated ==
    step >= 1 /\ Rejected(Directive(arg)) => PlainReply(ret[1], arg)

\* the content is the text of a JSON object that SystemsAnalysis accepts
WellFormedText(parsed) ==
    IF parsed.ok
    THEN IF IsDict(parsed.v) THEN ValidAnalysis(parsed.v) ELSE FALSE
    ELSE FALSE

WellFormed(content) ==
    IF content.k = "str" THEN WellFormedText(json_loads(content.items)) ELSE FALSE

\* C5 as stated: parse_llm_output never raises, and returns the empty
\* analysis for every output but a well-formed object.
C5_AsStated ==
    step = 1 =>
        /\ ret[1].raised = ""
        /\ WellFormed(ContentOf(arg)) \/ ret[1] = DefaultAnalysis

====
